---- MODULE Spec2Model ----
(***************************************************************************)
(* The read path of plexdrive: Buffer (buffer.go) serving Read(offset,size) *)
(* from the chunk cache (cache.go: StoreChunk / LoadChunk / ClearChunks)    *)
(* and, on a miss, from a byte stream opened by Drive.Open.                 *)
(*                                                                         *)
(* Spec      : sessions (Buffers) issuing Read and Close, plus ClearChunks. *)
(*             A Read is two steps, LoadChunk and then readFromAPI +        *)
(*             StoreChunk, so that sessions running in different goroutines *)
(*             interleave at the two cache operations.                      *)
(* SpecPair  : two sessions on the same object, their steps interleaved.    *)
(* SpecCache : a client calling StoreChunk / LoadChunk / ClearChunks.       *)
(* SpecStart : NewCache over what a previous run left, then the same calls. *)
(***************************************************************************)
EXTENDS Integers, Sequences, FiniteSets, TLC

\* ------------------------------------------------------------------ bounds
ObjSize == 2
MaxSize == 2
MaxCalls == 3
MaxFaults == 1
MaxPairCalls == 2
MaxCacheCalls == 3

\* ---------------------------------------------------------- remote objects
Sessions == {"s1", "s2"}
Solo == {"s1"}
ObjectIDs == {"a", "b"}

\* APIObject: the two fields the read path uses (ObjectID, Size).
APIObject(oid) == [ObjectID |-> oid, Size |-> ObjSize]

\* The byte of object oid at position i (0-based); never 0, so that the
\* zero bytes of a fresh make([]byte, size) are distinguishable from content.
Content(oid, i) == IF oid = "a" THEN i + 1 ELSE i + 1 + 16

\* The requests issued: offsets at the start, inside, at the end and past the
\* end of the object; sizes of one byte and of MaxSize bytes.
Offsets == {0, 1, ObjSize, ObjSize + 1}
Sizes == {1, MaxSize}

Min(x, y) == IF x < y THEN x ELSE y

\* ------------------------------------------------------------- chunk cache
\* fmt.Sprintf("%v:%v", ObjectID, offset)
ChunkID(oid, offset) == oid \o ":" \o ToString(offset)

Chunk(id, oid, offset, size, bytes) ==
    [ID |-> id, ObjectID |-> oid, Offset |-> offset, Size |-> size, Bytes |-> bytes]

NoChunk == Chunk("", "", 0, 0, << >>)

\* bson encoding of a Chunk: field names are the lower-cased struct names,
\* ID is stored as _id (omitted when empty; the upsert selector supplies it).
Marshal(chunk) ==
    [_id |-> chunk.ID, objectid |-> chunk.ObjectID, offset |-> chunk.Offset,
     size |-> chunk.Size, bytes |-> chunk.Bytes]

Unmarshal(doc) ==
    [ID |-> doc._id, ObjectID |-> doc.objectid, Offset |-> doc.offset,
     Size |-> doc.size, Bytes |-> doc.bytes]

\* mgo Collection.Upsert(selector {_id: id}, doc): replace the matching
\* document, or insert doc with the selector's _id.
Upsert(docs, id, doc) ==
    {d \in docs : d._id # id} \cup {[doc EXCEPT !._id = id]}

\* Insert in place of Upsert.
StoreChunk_Insert(docs, chunk, ok) ==
    IF ok
    THEN [docs |-> docs \cup {Marshal(chunk)}, err |-> FALSE]
    ELSE [docs |-> docs, err |-> TRUE]

\* Cache.StoreChunk: ok is the backend's answer; a failed write changes nothing.
StoreChunk(docs, chunk, ok) ==
    IF ok
    THEN [docs |-> Upsert(docs, chunk.ID, Marshal(chunk)), err |-> FALSE]
    ELSE [docs |-> docs, err |-> TRUE]

\* Find with an empty selector: any document answers.
LoadChunk_AnyDoc(docs, id, ok) ==
    IF ok /\ docs # {}
    THEN [chunk |-> Unmarshal(CHOOSE d \in docs : TRUE), err |-> FALSE]
    ELSE [chunk |-> NoChunk, err |-> TRUE]

\* Cache.LoadChunk: Find({_id: id}).One(&chunk); any error (not found or a
\* backend failure) is returned as an error.
LoadChunk(docs, id, ok) ==
    IF ok /\ \E d \in docs : d._id = id
    THEN [chunk |-> Unmarshal(CHOOSE d \in docs : d._id = id), err |-> FALSE]
    ELSE [chunk |-> NoChunk, err |-> TRUE]

\* Cache.ClearChunks: RemoveAll({}); a failed call removes nothing.
ClearChunks(docs, ok) ==
    IF ok THEN [docs |-> {}, err |-> FALSE] ELSE [docs |-> docs, err |-> TRUE]

\* ------------------------------------------------------------ byte streams
\* Buffer.stream = nil
Nil == 0

\* The stream Drive.Open(object, offset) returns: its next read yields the
\* byte at pos.  closeCalls counts the Close calls made on the handle.
NewStream(oid, offset) ==
    [object |-> oid, pos |-> offset, closed |-> FALSE, closeCalls |-> 0]

\* io.Reader: the (n, err) results a Read into a buffer of length len may
\* give.  A closed stream gives an error; an open one gives 1..len bytes that
\* exist, end-of-stream once the last byte is delivered, or fails after
\* delivering some bytes.
StreamReadResults(st, size, len) ==
    LET rem == IF st.pos < size THEN size - st.pos ELSE 0
        max == Min(len, rem)
    IN  IF st.closed
        THEN {<<0, "io">>}
        ELSE {<<n, "nil">> : n \in (IF len = 0 THEN {0} ELSE 1 .. max)}
             \cup {<<n, "EOF">> : n \in (IF max = rem THEN {rem} ELSE {})}
             \cup {<<n, "io">> : n \in 0 .. max}

\* io.Closer on handle h: a successful Close releases the stream.
StreamClose(strs, h, ok) ==
    [strs EXCEPT ![h] = [@ EXCEPT !.closed = (@ \/ ok), !.closeCalls = @ + 1]]

\* ------------------------------------------------------------------- state
VARIABLES
    chunks,     \* the "chunks" collection: a set of bson documents
    b,          \* b[s]: the Buffer of session s (object, offset, stream)
    streams,    \* streams[h]: the stream behind handle h, in order of Open
    pc,         \* pc[s]: "idle", or "fetch" between LoadChunk and readFromAPI
    cur,        \* cur[s]: the Read of session s in progress (NoCall when idle)
    last,       \* the call that returned most recently, with what it did
    seq,        \* seq[s]: what the latest cache-missing Read of s left behind
    populated,  \* per chunk id, the bytes of the first Read that stored it
    hist,       \* SpecCache: the cache calls made so far, oldest first
    calls,      \* number of calls issued so far
    faults      \* number of failures the backend and the network have answered

vars == <<chunks, b, streams, pc, cur, last, seq, populated, hist, calls, faults>>

Event(op, h, at, ok) == [op |-> op, h |-> h, at |-> at, ok |-> ok]

NoCall ==
    [s |-> "", call |-> "none", offset |-> 0, size |-> 0,
     loadOK |-> TRUE,       \* the backend answered the lookup
     found |-> FALSE,       \* LoadChunk returned no error
     err |-> "nil",         \* "nil", "EOF" (io.EOF), "io" (fmt.Errorf), "pending"
     bytes |-> << >>,       \* the bytes returned
     n |-> 0,               \* the byte count stream.Read returned
     got |-> << >>,         \* the bytes stream.Read delivered
     net |-> << >>,         \* the Close, Open and Read calls made, in order
     stored |-> "no",       \* StoreChunk: "no" (not called), "ok", "fail"
     changed |-> FALSE,     \* the chunks collection differs after the call
     moved |-> FALSE,       \* the Buffer or a stream differs after the call
     prior |-> << >>,       \* the populated entry of the chunk id at the lookup
     prev |-> << >>,        \* seq[s] at the lookup
     pre |-> [offset |-> 0, stream |-> Nil]]  \* the Buffer at the lookup

\* NewBuffer: offset 0, stream nil.
NewBuffer(oid) == [object |-> APIObject(oid), offset |-> 0, stream |-> Nil]

Init ==
    /\ chunks = {}
    /\ b = [s \in Sessions |-> NewBuffer("a")]
    /\ streams = << >>
    /\ pc = [s \in Sessions |-> "idle"]
    /\ cur = [s \in Sessions |-> NoCall]
    /\ last = NoCall
    /\ seq = [s \in Sessions |-> << >>]
    /\ populated = {}
    /\ hist = << >>
    /\ calls = 0
    /\ faults = 0

\* ------------------------------------------------------------------ Buffer
\* The cursor compared with the end of the requested range.
shouldReopen_BySize(bf, offset, size) == bf.stream = Nil \/ offset # bf.offset + size

\* Buffer.shouldReopen
shouldReopen(bf, offset, size) == bf.stream = Nil \/ offset # bf.offset

ApiResult(bf, strs, bytes, err, n, net) ==
    [b |-> bf, streams |-> strs, bytes |-> bytes, err |-> err, n |-> n, net |-> net,
     got |-> << >>]

\* Line 100 (b.offset = offset) left out.
Reopen_KeepCursor(bf, strs, offset, size, closeOK, openOK) ==
    IF ~shouldReopen(bf, offset, size)
    THEN ApiResult(bf, strs, << >>, "nil", 0, << >>)
    ELSE LET closing == bf.stream # Nil
             strs1 == IF closing THEN StreamClose(strs, bf.stream, closeOK) ELSE strs
             net1 == IF closing
                     THEN <<Event("close", bf.stream, strs[bf.stream].pos, closeOK)>>
                     ELSE << >>
             h == Len(strs1) + 1
         IN  IF ~openOK
             THEN ApiResult(bf, strs1, << >>, "io", 0,
                            Append(net1, Event("open", Nil, offset, FALSE)))
             ELSE ApiResult([bf EXCEPT !.stream = h],
                            Append(strs1, NewStream(bf.object.ObjectID, offset)),
                            << >>, "nil", 0,
                            Append(net1, Event("open", h, offset, TRUE)))

\* Lines 87-91 (the close of the old stream) left out.
Reopen_NoClose(bf, strs, offset, size, closeOK, openOK) ==
    IF ~shouldReopen(bf, offset, size)
    THEN ApiResult(bf, strs, << >>, "nil", 0, << >>)
    ELSE LET h == Len(strs) + 1
         IN  IF ~openOK
             THEN ApiResult(bf, strs, << >>, "io", 0,
                            <<Event("open", Nil, offset, FALSE)>>)
             ELSE ApiResult([bf EXCEPT !.stream = h, !.offset = offset],
                            Append(strs, NewStream(bf.object.ObjectID, offset)),
                            << >>, "nil", 0,
                            <<Event("open", h, offset, TRUE)>>)

\* readFromAPI, lines 86-101: close the old stream (result ignored), open a
\* new one at offset; on success take the handle and set the cursor.
Reopen(bf, strs, offset, size, closeOK, openOK) ==
    IF ~shouldReopen(bf, offset, size)
    THEN ApiResult(bf, strs, << >>, "nil", 0, << >>)
    ELSE LET closing == bf.stream # Nil
             strs1 == IF closing THEN StreamClose(strs, bf.stream, closeOK) ELSE strs
             net1 == IF closing
                     THEN <<Event("close", bf.stream, strs[bf.stream].pos, closeOK)>>
                     ELSE << >>
             h == Len(strs1) + 1
         IN  IF ~openOK
             THEN ApiResult(bf, strs1, << >>, "io", 0,
                            Append(net1, Event("open", Nil, offset, FALSE)))
             ELSE ApiResult([bf EXCEPT !.stream = h, !.offset = offset],
                            Append(strs1, NewStream(bf.object.ObjectID, offset)),
                            << >>, "nil", 0,
                            Append(net1, Event("open", h, offset, TRUE)))

\* readFromAPI, lines 103-111: buffer := make([]byte, size); n, err :=
\* stream.Read(buffer); the whole buffer is returned.
ReadStream(bf, strs, offset, size, rd, net) ==
    LET h == bf.stream
        st == strs[h]
        n == rd[1]
        buffer == [i \in 1 .. size |->
                     IF i <= n THEN Content(st.object, st.pos + i - 1) ELSE 0]
        strs1 == [strs EXCEPT ![h].pos = @ + n]
        net1 == Append(net, Event("read", h, bf.offset, rd[2] # "io"))
        got == [i \in 1 .. n |-> Content(st.object, st.pos + i - 1)]
    IN  IF rd[2] = "io"
        THEN [ApiResult(bf, strs1, << >>, "io", n, net1) EXCEPT !.got = got]
        ELSE [ApiResult([bf EXCEPT !.offset = @ + n], strs1, buffer, "nil", n, net1)
                EXCEPT !.got = got]

\* Lines 82-84 (the check against object.Size) left out.
readFromAPI_NoBound(bf, strs, offset, size, closeOK, openOK, rd) ==
    LET o == Reopen(bf, strs, offset, size, closeOK, openOK)
    IN  IF o.err # "nil"
        THEN o
        ELSE ReadStream(o.b, o.streams, offset, size, rd, o.net)

\* A failed client.Open tried once more.
readFromAPI_RetryOpen(bf, strs, offset, size, closeOK, openOK, rd) ==
    IF offset > bf.object.Size
    THEN ApiResult(bf, strs, << >>, "EOF", 0, << >>)
    ELSE LET o1 == Reopen(bf, strs, offset, size, closeOK, openOK)
             o2 == Reopen(o1.b, o1.streams, offset, size, TRUE, TRUE)
             o == IF o1.err = "nil" THEN o1
                  ELSE [o2 EXCEPT !.net = o1.net \o o2.net]
         IN  ReadStream(o.b, o.streams, offset, size, rd, o.net)

\* Buffer.readFromAPI; closeOK, openOK and rd are what the network answers.
readFromAPI(bf, strs, offset, size, closeOK, openOK, rd) ==
    IF offset > bf.object.Size
    THEN ApiResult(bf, strs, << >>, "EOF", 0, << >>)
    ELSE LET o == Reopen(bf, strs, offset, size, closeOK, openOK)
         IN  IF o.err # "nil"
             THEN o
             ELSE ReadStream(o.b, o.streams, offset, size, rd, o.net)

\* The stream.Read results possible for this call (one dummy result when the
\* call returns before line 104).
ReadChoices(bf, strs, offset, size, closeOK, openOK) ==
    IF offset > bf.object.Size
    THEN {<<0, "nil">>}
    ELSE LET o == Reopen(bf, strs, offset, size, closeOK, openOK)
         IN  IF o.err # "nil"
             THEN {<<0, "nil">>}
             ELSE StreamReadResults(o.streams[o.b.stream], bf.object.Size, size)

Prior(id) == IF \E p \in populated : p.id = id
             THEN <<CHOOSE p \in populated : p.id = id>>
             ELSE << >>

\* The first Read that stores id since the last ClearChunks is remembered
\* with its session and bytes; a later store of id marks the entry as no
\* longer clean.
Populate(pop, id, s, bytes) ==
    IF \E p \in pop : p.id = id
    THEN {[p EXCEPT !.clean = (@ /\ p.id # id)] : p \in pop}
    ELSE pop \cup {[id |-> id, by |-> s, bytes |-> bytes, clean |-> TRUE]}

Opens(net) == Cardinality({i \in DOMAIN net : net[i].op = "open"})
StreamReads(net) == Cardinality({i \in DOMAIN net : net[i].op = "read"})
Closes(net) == Cardinality({i \in DOMAIN net : net[i].op = "close"})

\* What a cache-missing Read leaves for the next one of its session: where it
\* ended, the Open calls it made and the handle held, if it succeeded.
After(c, bf) ==
    IF c.err = "nil"
    THEN <<[end |-> c.offset + c.n, opens |-> Opens(c.net), stream |-> bf.stream]>>
    ELSE << >>

\* A hit cut to the requested size.
readBytesLoad_Cut(s, bf, docs, offset, size, loadOK) ==
    LET id == ChunkID(bf.object.ObjectID, offset)
        r == LoadChunk(docs, id, loadOK)
        c == [NoCall EXCEPT !.s = s, !.call = "Read", !.offset = offset, !.size = size,
                            !.loadOK = loadOK, !.prior = Prior(id), !.prev = seq[s],
                            !.pre = [offset |-> bf.offset, stream |-> bf.stream]]
    IN  IF ~r.err
        THEN [c EXCEPT !.found = TRUE,
                       !.bytes = SubSeq(r.chunk.Bytes, 1, Min(size, Len(r.chunk.Bytes)))]
        ELSE [c EXCEPT !.err = "pending"]

\* readBytes, lines 56-62: the cache lookup; a hit returns chunk.Bytes.
readBytesLoad(s, bf, docs, offset, size, loadOK) ==
    LET id == ChunkID(bf.object.ObjectID, offset)
        r == LoadChunk(docs, id, loadOK)
        c == [NoCall EXCEPT !.s = s, !.call = "Read", !.offset = offset, !.size = size,
                            !.loadOK = loadOK, !.prior = Prior(id), !.prev = seq[s],
                            !.pre = [offset |-> bf.offset, stream |-> bf.stream]]
    IN  IF ~r.err
        THEN [c EXCEPT !.found = TRUE, !.bytes = r.chunk.Bytes]
        ELSE [c EXCEPT !.err = "pending"]

\* A hit that moves the cursor behind the bytes it returns.
readBytesHit_Seek(bf, docs, c) ==
    [b |-> [bf EXCEPT !.offset = c.offset + Len(c.bytes)], docs |-> docs]

\* readBytes, lines 59-62: a hit logs and returns; the Buffer and the
\* collection are left as they are.
readBytesHit(bf, docs, c) == [b |-> bf, docs |-> docs]

\* The error of StoreChunk returned to the caller.
readBytesStore_FailOnStore(c, docs, oid, r, storeOK) ==
    IF r.err # "nil"
    THEN [docs |-> docs,
          call |-> [c EXCEPT !.err = r.err, !.n = r.n, !.got = r.got, !.net = r.net]]
    ELSE LET id == ChunkID(oid, c.offset)
             st == StoreChunk(docs, Chunk(id, oid, c.offset, c.size, r.bytes), storeOK)
         IN  [docs |-> st.docs,
              call |-> [c EXCEPT !.err = IF st.err THEN "io" ELSE "nil",
                                 !.bytes = IF st.err THEN << >> ELSE r.bytes,
                                 !.n = r.n, !.got = r.got, !.net = r.net,
                                 !.stored = IF st.err THEN "fail" ELSE "ok"]]

\* readBytes, lines 64-78: on an error of readFromAPI return it; otherwise
\* StoreChunk (result ignored) and return the bytes.
readBytesStore(c, docs, oid, r, storeOK) ==
    IF r.err # "nil"
    THEN [docs |-> docs,
          call |-> [c EXCEPT !.err = r.err, !.n = r.n, !.got = r.got, !.net = r.net]]
    ELSE LET id == ChunkID(oid, c.offset)
             st == StoreChunk(docs, Chunk(id, oid, c.offset, c.size, r.bytes), storeOK)
         IN  [docs |-> st.docs,
              call |-> [c EXCEPT !.err = "nil", !.bytes = r.bytes, !.n = r.n,
                                 !.got = r.got, !.net = r.net,
                                 !.stored = IF st.err THEN "fail" ELSE "ok"]]

\* The failures answered during a call: failed network events, failed store.
Failures(net, stored) ==
    Cardinality({i \in DOMAIN net : ~net[i].ok}) + (IF stored = "fail" THEN 1 ELSE 0)

\* Read, first step: LoadChunk.  A backend failure of the lookup is a choice
\* only where it differs from not-found, that is when the chunk is there.
ReadLoad(s) ==
    /\ pc[s] = "idle"
    /\ calls < MaxCalls
    /\ \E offset \in Offsets, size \in Sizes, loadOK \in BOOLEAN :
       \E c \in {readBytesLoad(s, b[s], chunks, offset, size, loadOK)} :
         LET hit == readBytesLoad(s, b[s], chunks, offset, size, TRUE).found
             h == readBytesHit(b[s], chunks, c)
         IN  /\ loadOK \/ (faults < MaxFaults /\ hit)
             /\ faults' = IF loadOK THEN faults ELSE faults + 1
             /\ IF c.found
                THEN /\ b' = [b EXCEPT ![s] = h.b]
                     /\ chunks' = h.docs
                     /\ last' = [c EXCEPT !.changed = (h.docs # chunks),
                                          !.moved = (h.b # b[s])]
                     /\ UNCHANGED <<pc, cur>>
                ELSE /\ pc' = [pc EXCEPT ![s] = "fetch"]
                     /\ cur' = [cur EXCEPT ![s] = c]
                     /\ UNCHANGED <<chunks, b, last>>
    /\ calls' = calls + 1
    /\ UNCHANGED <<streams, seq, populated, hist>>

\* Read, second step after a miss: readFromAPI, then StoreChunk.  Each answer
\* that is not consulted is taken as a success, and failures are counted.
ReadFetch(s) ==
    /\ pc[s] = "fetch"
    /\ \E closeOK \in BOOLEAN, openOK \in BOOLEAN, storeOK \in BOOLEAN :
       \E rd \in ReadChoices(b[s], streams, cur[s].offset, cur[s].size, closeOK, openOK) :
       \E r \in {readFromAPI(b[s], streams, cur[s].offset, cur[s].size,
                              closeOK, openOK, rd)} :
       \E w \in {readBytesStore(cur[s], chunks, b[s].object.ObjectID, r, storeOK)} :
         LET failed == Failures(w.call.net, w.call.stored)
             asked == Failures(<<Event("close", Nil, 0, closeOK),
                                 Event("open", Nil, 0, openOK),
                                 Event("read", Nil, 0, rd[2] # "io")>>,
                               IF storeOK THEN "ok" ELSE "fail")
         IN  /\ asked = failed
             /\ faults + failed <= MaxFaults
             /\ faults' = faults + failed
             /\ b' = [b EXCEPT ![s] = r.b]
             /\ streams' = r.streams
             /\ chunks' = w.docs
             /\ last' = [w.call EXCEPT !.changed = (w.docs # chunks),
                                       !.moved = (r.b # b[s] \/ r.streams # streams)]
             /\ seq' = [seq EXCEPT ![s] = After(w.call, r.b)]
             /\ populated' = IF w.call.stored = "ok"
                             THEN Populate(populated,
                                           ChunkID(b[s].object.ObjectID, cur[s].offset),
                                           s, r.bytes)
                             ELSE populated
    /\ pc' = [pc EXCEPT ![s] = "idle"]
    /\ cur' = [cur EXCEPT ![s] = NoCall]
    /\ UNCHANGED <<hist, calls>>

\* Buffer.Close: closes the stream if there is one; b.stream is kept.
BufferClose(bf, strs, ok) ==
    IF bf.stream # Nil
    THEN [streams |-> StreamClose(strs, bf.stream, ok),
          err |-> IF ok THEN "nil" ELSE "io",
          net |-> <<Event("close", bf.stream, strs[bf.stream].pos, ok)>>]
    ELSE [streams |-> strs, err |-> "nil", net |-> << >>]

Close(s) ==
    /\ pc[s] = "idle"
    /\ calls < MaxCalls
    /\ \E ok \in BOOLEAN :
         LET r == BufferClose(b[s], streams, ok)
         IN  /\ ok \/ (faults < MaxFaults /\ b[s].stream # Nil)
             /\ faults' = IF ok THEN faults ELSE faults + 1
             /\ streams' = r.streams
             /\ last' = [NoCall EXCEPT !.s = s, !.call = "Close", !.err = r.err,
                                       !.net = r.net,
                                       !.moved = (r.streams # streams),
                                       !.pre = [offset |-> b[s].offset,
                                                stream |-> b[s].stream]]
    /\ calls' = calls + 1
    /\ UNCHANGED <<chunks, b, pc, cur, seq, populated, hist>>

\* Cache.ClearChunks called while sessions are open.
Clear ==
    /\ calls < MaxCalls
    /\ \E ok \in BOOLEAN :
         LET r == ClearChunks(chunks, ok)
         IN  /\ ok \/ faults < MaxFaults
             /\ faults' = IF ok THEN faults ELSE faults + 1
             /\ chunks' = r.docs
             /\ populated' = IF r.err THEN populated ELSE {}
    /\ calls' = calls + 1
    /\ UNCHANGED <<b, streams, pc, cur, last, seq, hist>>

\* One session.
Next ==
    \/ \E s \in Solo : ReadLoad(s)
    \/ \E s \in Solo : ReadFetch(s)
    \/ \E s \in Solo : Close(s)
    \/ Clear

Spec == Init /\ [][Next]_vars

\* Two sessions on the same object, their steps interleaved.
NextPair ==
    \/ \E s \in Sessions : ReadLoad(s) /\ calls' <= MaxPairCalls
    \/ \E s \in Sessions : ReadFetch(s)
    \/ \E s \in Sessions : Close(s) /\ calls' <= MaxPairCalls
    \/ Clear /\ calls' <= MaxPairCalls

SpecPair == Init /\ [][NextPair]_vars

\* ------------------------------------------------- the cache used directly
\* The chunks a client stores: per object and offset one chunk of each size,
\* the shorter payload a prefix of the longer.
TestChunks ==
    {Chunk(ChunkID(oid, offset), oid, offset, size,
           [i \in 1 .. size |-> Content(oid, offset + i - 1)]) :
        oid \in ObjectIDs, offset \in {0, 1}, size \in Sizes}

TestIDs == {c.ID : c \in TestChunks}

CacheCall(op, id, chunk, ok, err) ==
    [op |-> op, id |-> id, chunk |-> chunk, ok |-> ok, err |-> err]

\* The calls a client has made on the cache (NewCache, which creates it, is
\* not one of them).
Issued(h) == Cardinality({i \in DOMAIN h : h[i].op # "new"})

CacheStep(ok) ==
    /\ Issued(hist) < MaxCacheCalls
    /\ ok \/ faults < MaxFaults
    /\ faults' = IF ok THEN faults ELSE faults + 1
    /\ UNCHANGED <<b, streams, pc, cur, last, seq, populated, calls>>

Store ==
    \E chunk \in TestChunks, ok \in BOOLEAN :
      \E r \in {StoreChunk(chunks, chunk, ok)} :
        /\ CacheStep(ok)
        /\ chunks' = r.docs
        /\ hist' = Append(hist, CacheCall("store", chunk.ID, chunk, ok, r.err))

Load ==
    \E id \in TestIDs, ok \in BOOLEAN :
      \E r \in {LoadChunk(chunks, id, ok)} :
        /\ CacheStep(ok)
        /\ hist' = Append(hist, CacheCall("load", id, r.chunk, ok, r.err))
        /\ UNCHANGED chunks

ClearAll ==
    \E ok \in BOOLEAN :
      \E r \in {ClearChunks(chunks, ok)} :
        /\ CacheStep(ok)
        /\ chunks' = r.docs
        /\ hist' = Append(hist, CacheCall("clear", "", NoChunk, ok, r.err))

NextCache == Store \/ Load \/ ClearAll

SpecCache == Init /\ [][NextCache]_vars

\* ------------------------------------------------- the cache from NewCache
\* What a previous run may have left in the "chunks" collection: nothing, or
\* a chunk of object a whose bytes are not the object's bytes any more.
StaleChunk == Chunk(ChunkID("a", 0), "a", 0, 1, <<99>>)

PreviousRuns == {{}, {Marshal(StaleChunk)}}

InitStart ==
    /\ chunks \in PreviousRuns
    /\ b = [s \in Sessions |-> NewBuffer("a")]
    /\ streams = << >>
    /\ pc = [s \in Sessions |-> "idle"]
    /\ cur = [s \in Sessions |-> NoCall]
    /\ last = NoCall
    /\ seq = [s \in Sessions |-> << >>]
    /\ populated = {}
    /\ hist = << >>
    /\ calls = 0
    /\ faults = 0

\* NewCache, lines 93-99: ClearChunks is called once; its error is logged
\* and the cache is returned with a nil error all the same.
NewCache ==
    /\ hist = << >>
    /\ \E ok \in BOOLEAN :
         \E r \in {ClearChunks(chunks, ok)} :
           /\ ok \/ faults < MaxFaults
           /\ faults' = IF ok THEN faults ELSE faults + 1
           /\ chunks' = r.docs
           /\ hist' = <<CacheCall("new", "", NoChunk, ok, FALSE)>>
    /\ UNCHANGED <<b, streams, pc, cur, last, seq, populated, calls>>

\* A process creates the cache, then uses it.
NextStart ==
    \/ NewCache
    \/ hist # << >> /\ Store
    \/ hist # << >> /\ Load
    \/ hist # << >> /\ ClearAll

SpecStart == InitStart /\ [][NextStart]_vars

\* The index of the call that decides what id holds after the first i calls
\* of h: the last successful store of id, or 0 when there is none since the
\* last successful clear.
RECURSIVE Holder(_, _, _)
Holder(h, i, id) ==
    IF i = 0 THEN 0
    ELSE IF h[i].op = "clear" /\ ~h[i].err THEN 0
    ELSE IF h[i].op = "store" /\ ~h[i].err /\ h[i].id = id THEN i
    ELSE Holder(h, i - 1, id)

\* ------------------------------------------------------------------ claims
\* The claims on Read speak of `last`, the call that returned most recently;
\* every call is `last` in the state it returns in.

\* The Read that returned last missed the cache (LoadChunk gave an error).
MissRead == last.call = "Read" /\ ~last.found

\* The declared size of the object of the session of `last`.
LastSize == b[last.s].object.Size

\* A client.Open or a stream.Read of `last` failed.
NetFailed ==
    \E i \in DOMAIN last.net : last.net[i].op \in {"open", "read"} /\ ~last.net[i].ok

\* The bytes of the object of `last` at offset .. offset + n - 1.
Existing(offset, n) ==
    [i \in 1 .. n |-> Content(b[last.s].object.ObjectID, offset + i - 1)]

Orig_C2_EndOfDataBoundary ==
    (MissRead /\ last.offset = LastSize) => last.err = "EOF"

\* C3 as claimed (partial tail read): a cache-missing Read with offset <
\* object size < offset + size, on a stream that answers without failure and
\* delivers the bytes that exist, returns with no error exactly those
\* (object size - offset) bytes.
Orig_C3_PartialTail ==
    (/\ MissRead
     /\ last.offset < LastSize /\ LastSize < last.offset + last.size
     /\ StreamReads(last.net) = 1 /\ ~NetFailed
     /\ last.n = LastSize - last.offset
     /\ last.got = Existing(last.offset, last.n)) =>
        /\ last.err = "nil"
        /\ Len(last.bytes) = LastSize - last.offset
        /\ last.bytes = Existing(last.offset, LastSize - last.offset)

\* The latest cache-missing Read of the session before `last` succeeded and
\* `last`, a cache-missing Read that succeeded too, starts where it ended
\* (its offset + the byte count its stream read returned).
Sequential ==
    /\ MissRead /\ last.err = "nil"
    /\ last.prev # << >>
    /\ last.offset = last.prev[1].end

\* C4 as claimed (sequential reuse): the second Read does not reopen,
\* exactly one Open call is made across both reads, and the handle after the
\* second is the one the first opened.  Stated for second Reads that start
\* inside the object, which is enough to refute it.
Orig_C4_SequentialReuse ==
    (Sequential /\ last.offset < LastSize) =>
        /\ Opens(last.net) = 0
        /\ last.prev[1].opens + Opens(last.net) = 1
        /\ b[last.s].stream = last.prev[1].stream

\* C4 as amended: the second Read makes no Open call, so at most one is made
\* across both reads (one when the first Read opened the stream, none when
\* the first itself reused it), it reads the stream once, and the handle
\* after it is the one the session held after the first.
Thm_C4_SequentialReuse ==
    Sequential =>
        /\ Opens(last.net) = 0
        /\ Closes(last.net) = 0
        /\ StreamReads(last.net) = 1
        /\ last.prev[1].opens + Opens(last.net) <= 1
        /\ last.pre.stream = last.prev[1].stream
        /\ b[last.s].stream = last.prev[1].stream

\* The first Read opened the stream and the second read bytes from it.
Wit_C4_SequentialReuse ==
    /\ Sequential
    /\ last.prev[1].opens = 1
    /\ last.n >= 1

\* `last` is a cache-missing Read whose offset is not past the object's end
\* and that found no stream or a cursor other than its offset.
NonSequential ==
    /\ MissRead
    /\ last.offset <= LastSize
    /\ (last.pre.stream = Nil \/ last.offset # last.pre.offset)

\* C5 (non-sequential reopen): such a Read calls Open exactly once, with the
\* requested offset; a stream held before is closed first, once, and the
\* result of that close does not decide the Read; a failed Open ends the
\* Read; after a successful Open the new handle is read with the cursor at
\* the requested offset.
Thm_C5_NonSequentialReopen ==
    NonSequential =>
        LET net == last.net
            k == IF last.pre.stream = Nil THEN 1 ELSE 2
        IN  /\ Opens(net) = 1
            /\ Len(net) >= k
            /\ net[k].op = "open" /\ net[k].at = last.offset
            /\ Closes(net) = k - 1
            /\ k = 2 => (net[1].op = "close" /\ net[1].h = last.pre.stream)
            /\ ~net[k].ok => (Len(net) = k /\ last.err = "io")
            /\ net[k].ok =>
                 /\ Len(net) = k + 1
                 /\ net[k + 1].op = "read"
                 /\ net[k + 1].h = net[k].h
                 /\ net[k + 1].at = last.offset
                 /\ last.err = (IF net[k + 1].ok THEN "nil" ELSE "io")
                 /\ b[last.s].stream = net[k].h
                 /\ b[last.s].offset
                      = last.offset + (IF net[k + 1].ok THEN last.n ELSE 0)

\* A Read away from the cursor whose close of the old stream failed and
\* that succeeded all the same.
Wit_C5_NonSequentialReopen ==
    /\ NonSequential
    /\ last.pre.stream # Nil
    /\ ~last.net[1].ok
    /\ last.err = "nil"

\* C6 (no retry): a Read whose Open or stream read failed returns an I/O
\* error and no bytes, after at most one Open and one stream read, and it
\* neither calls StoreChunk nor changes the chunks collection.
Thm_C6_NoRetry ==
    (last.call = "Read" /\ NetFailed) =>
        /\ last.err = "io"
        /\ last.bytes = << >>
        /\ Opens(last.net) <= 1
        /\ StreamReads(last.net) <= 1
        /\ last.stored = "no"
        /\ ~last.changed

\* A stream read failed after delivering bytes, on a stream opened before.
Wit_C6_NoRetry ==
    /\ last.call = "Read" /\ NetFailed
    /\ Opens(last.net) = 0
    /\ last.n >= 1

\* C7 (cache failures stay inside): a Read ends with bytes, io.EOF or an
\* I/O error, and an I/O error only when Open or the stream read failed; a
\* lookup the backend failed is a miss that goes to the network; a failed
\* StoreChunk leaves the Read successful with the bytes it read.
Thm_C7_CacheFailuresHidden ==
    last.call = "Read" =>
        /\ last.err \in {"nil", "EOF", "io"}
        /\ last.err = "io" => NetFailed
        /\ ~last.loadOK =>
             /\ ~last.found
             /\ last.offset <= LastSize => Opens(last.net) + StreamReads(last.net) >= 1
        /\ last.stored = "fail" =>
             /\ last.err = "nil"
             /\ Len(last.bytes) = last.size
             /\ SubSeq(last.bytes, 1, last.n) = last.got

\* StoreChunk failed after the stream delivered bytes.
Wit_C7_CacheFailuresHidden ==
    /\ last.call = "Read"
    /\ last.stored = "fail"
    /\ last.n >= 1

\* C8 (read past the end): a cache-missing Read at an offset greater than
\* the object size fails with io.EOF and does nothing else: no Close, Open
\* or stream read, cursor, handle and streams as before, no StoreChunk.
Thm_C8_PastEnd ==
    (MissRead /\ last.offset > LastSize) =>
        /\ last.err = "EOF"
        /\ last.bytes = << >>
        /\ last.net = << >>
        /\ ~last.moved
        /\ b[last.s].offset = last.pre.offset
        /\ b[last.s].stream = last.pre.stream
        /\ last.stored = "no"
        /\ ~last.changed

\* A Read past the end on a session that holds an open stream.
Wit_C8_PastEnd ==
    /\ MissRead /\ last.offset > LastSize
    /\ last.pre.stream # Nil
    /\ ~streams[last.pre.stream].closed


Thm_C10_Upsert ==
    /\ \A d1 \in chunks, d2 \in chunks : d1._id = d2._id => d1 = d2
    /\ {Unmarshal(d) : d \in chunks}
         = {hist[Holder(hist, Len(hist), id)].chunk :
              id \in {x \in TestIDs : Holder(hist, Len(hist), x) # 0}}

\* An identifier was stored, then another one, then the first again with a
\* different payload.
Wit_C10_Upsert ==
    \E i \in DOMAIN hist, j \in DOMAIN hist, k \in DOMAIN hist :
      /\ i < j /\ j < k
      /\ \A x \in {i, j, k} : hist[x].op = "store" /\ ~hist[x].err
      /\ hist[i].id = hist[k].id /\ hist[j].id # hist[i].id
      /\ hist[i].chunk.Bytes # hist[k].chunk.Bytes

\* C11 as claimed (clear-all): a LoadChunk of an identifier that no
\* StoreChunk has stored since the cache was created by NewCache, or since
\* the last ClearChunks that succeeded, returns the not-found error; so a
\* fresh cache serves no chunk of a previous run.
Orig_C11_ClearAll ==
    \A i \in DOMAIN hist :
      (hist[i].op = "load" /\ Holder(hist, i - 1, hist[i].id) = 0) => hist[i].err

\* C12 as claimed (Close): a Close makes one close call on the handle the
\* session holds and none when it holds none, it returns an error exactly
\* when that call fails, and after it the session holds no live handle: its
\* stream is nil or closed, whether the close call failed or not.
Orig_C12_Close ==
    last.call = "Close" =>
        /\ Closes(last.net) = (IF last.pre.stream = Nil THEN 0 ELSE 1)
        /\ Len(last.net) = Closes(last.net)
        /\ last.err = (IF \E i \in DOMAIN last.net : ~last.net[i].ok THEN "io" ELSE "nil")
        /\ b[last.s].stream = Nil \/ streams[b[last.s].stream].closed

\* C13 as claimed (session cursor invariant): whenever a session holds a
\* stream that is not closed, its cursor is the position of the byte the
\* next read of that stream returns; and after a cache-missing Read that
\* succeeded the cursor is the requested offset plus the byte count the
\* stream read returned.
Orig_C13_CursorInvariant ==
    /\ \A s \in Sessions :
         (b[s].stream # Nil /\ ~streams[b[s].stream].closed) =>
             b[s].offset = streams[b[s].stream].pos
    /\ (MissRead /\ last.err = "nil") => b[last.s].offset = last.offset + last.n

\* The streams the one session of Spec has opened and not closed.
Unclosed == {h \in DOMAIN streams : ~streams[h].closed}

\* The handle the one session of Spec holds.
Held == b[CHOOSE s \in Solo : TRUE].stream

\* C14 as claimed (single-stream ownership): the session has at most one
\* unclosed stream, every stream it opened and no longer holds is closed,
\* and after a Close of the session no stream is unclosed.
Orig_C14_SingleStream ==
    /\ Cardinality(Unclosed) <= 1
    /\ \A h \in DOMAIN streams : h # Held => streams[h].closed
    /\ last.call = "Close" => Unclosed = {}

\* C14 as amended: the session calls Close on the stream it holds before
\* every replacement Open and on its own Close, so every stream it opened
\* and no longer holds has had a close call, at most one stream (the held
\* one) has had none, and after a Close of the session none has; a stream
\* stays unclosed only when a close call on it failed.
Thm_C14_SingleStream ==
    /\ \A h \in DOMAIN streams : h # Held => streams[h].closeCalls >= 1
    /\ Cardinality({h \in DOMAIN streams : streams[h].closeCalls = 0}) <= 1
    /\ last.call = "Close" => \A h \in DOMAIN streams : streams[h].closeCalls >= 1

\* The close of the old stream failed, a replacement was opened, and the
\* session was closed: the old stream is left open.
Wit_C14_SingleStream ==
    /\ last.call = "Close" /\ last.err = "nil" /\ last.net # << >>
    /\ Len(streams) = 2
    /\ ~streams[1].closed /\ streams[2].closed

\* C15 (a hit changes nothing): a Read that LoadChunk serves leaves the
\* session's cursor and handle, every stream and the chunks collection as
\* they were and makes no network call, wherever its offset lies.
Thm_C15_HitChangesNothing ==
    (last.call = "Read" /\ last.found) =>
        /\ ~last.moved
        /\ ~last.changed
        /\ b[last.s].offset = last.pre.offset
        /\ b[last.s].stream = last.pre.stream
        /\ last.net = << >>
        /\ last.stored = "no"

\* A hit at the object's end, away from the cursor, on a session that holds
\* an open stream.
Wit_C15_HitChangesNothing ==
    /\ last.call = "Read" /\ last.found
    /\ last.offset >= LastSize
    /\ last.offset # last.pre.offset
    /\ last.pre.stream # Nil
    /\ ~streams[last.pre.stream].closed

\* C16 as claimed (chunk store invariant): chunk identifiers are a function
\* of (object, offset) that no two pairs share; every chunk in the
\* collection sits under the identifier of its object and offset and has at
\* most Size bytes; and the chunk a Read stored records that Read's offset
\* and requested size and holds the bytes the stream delivered as they are,
\* not padded.  The last part is stated for Reads that start inside the
\* object, which is enough to refute it.
Orig_C16_ChunkInvariant ==
    /\ \A o1 \in ObjectIDs, o2 \in ObjectIDs, f1 \in Offsets, f2 \in Offsets :
         ChunkID(o1, f1) = ChunkID(o2, f2) <=> (o1 = o2 /\ f1 = f2)
    /\ \A d \in chunks :
         /\ d._id = ChunkID(d.objectid, d.offset)
         /\ Len(d.bytes) <= d.size
    /\ (MissRead /\ last.stored = "ok" /\ last.offset < LastSize) =>
         \A d \in chunks :
           d._id = ChunkID(b[last.s].object.ObjectID, last.offset) =>
             /\ d.objectid = b[last.s].object.ObjectID
             /\ d.offset = last.offset
             /\ d.size = last.size
             /\ d.bytes = last.got

\* C17, the part on cursors and handles: a step of one session leaves the
\* cursor and the handle of every other session, and the stream behind that
\* handle, as they were.
Frame_C17_SessionIndependence ==
    [][\A s \in Sessions :
         (ReadLoad(s) \/ ReadFetch(s) \/ Close(s)) =>
            \A t \in Sessions \ {s} :
              /\ b'[t] = b[t]
              /\ b[t].stream # Nil => streams'[b[t].stream] = streams[b[t].stream]]_vars

\* C17 as claimed, the part on results: a session's successful Read at an
\* offset it has not stored itself returns what it returns when the session
\* runs alone, where that Read misses the cache and gives the size bytes of
\* its own network read.
Orig_C17_SessionIndependence ==
    (/\ last.call = "Read" /\ last.err = "nil"
     /\ (last.prior = << >> \/ (last.prior[1].by # last.s /\ last.prior[1].clean))) =>
        /\ Len(last.bytes) = last.size
        /\ SubSeq(last.bytes, 1, last.n) = last.got

\* C18 as claimed (no use of a released stream): the session calls Close on
\* a handle at most once, and a stream read is never made on a handle on
\* which the session has called Close.
Orig_C18_NoUseAfterRelease ==
    /\ \A h \in DOMAIN streams : streams[h].closeCalls <= 1
    /\ \A i \in DOMAIN last.net :
         last.net[i].op = "read" => streams[last.net[i].h].closeCalls = 0

\* C19 as claimed (data integrity): every byte of the result of a
\* successful Read is the object's byte at its position offset + i, and no
\* position of the result is at or beyond the object's size.  Stated for
\* Reads whose range offset .. offset + size - 1 lies inside the object,
\* which is enough to refute it.
Orig_C19_DataIntegrity ==
    (/\ last.call = "Read" /\ last.err = "nil"
     /\ last.offset + last.size <= LastSize) =>
        \A i \in DOMAIN last.bytes :
          /\ last.offset + i - 1 < LastSize
          /\ last.bytes[i] = Content(b[last.s].object.ObjectID, last.offset + i - 1)

\* C20 as claimed (result length bound): a successful Read(offset, size)
\* returns at most size bytes, from the network or from the cache.
Orig_C20_LengthBound ==
    (last.call = "Read" /\ last.err = "nil") => Len(last.bytes) <= last.size

====
